---- MODULE Spec2Model ----
(***************************************************************************)
(* A model of the bot supervision and order lifecycle engine of steamBot:  *)
(* SteamBot (src/bot/bot_core.py), BotManager (src/admin_panel.py), the    *)
(* worker loop of BotOrchestrator (src/main.py) and the order endpoint of  *)
(* src/api_server.py.                                                      *)
(*                                                                         *)
(* Environment assumptions of the model:                                   *)
(*  - Trading Client calls (SteamClientWrapper), the construction of a     *)
(*    SteamBot (which logs in) and the read of the sent-orders file may    *)
(*    fail; appends and writes of local files (call log, notifications,    *)
(*    offers/inventory dumps, bot_configs.json) succeed.                   *)
(*  - One BotManager is shared by the workers, the scheduler thread and    *)
(*    the administrative callers; other threads interleave with a worker   *)
(*    between the bot-method calls of its cycle.                           *)
(***************************************************************************)
EXTENDS Integers, Sequences, FiniteSets, TLC

VARIABLES
    now,            \* the clock, in seconds
    is_running,     \* BotOrchestrator.is_running
    started,        \* run_all_bots has created the worker tasks
    bots,           \* BotManager.bots: bot id -> reference into heap
    bot_configs,    \* BotManager.bot_configs: bot id -> configuration
    persisted,      \* data/bot_configs.json
    allocated,      \* history: every id _generate_bot_id has handed out
    heap,           \* the SteamBot objects ever constructed
    workers,        \* bot_worker tasks: heap reference -> position in the loop,
                    \* with the history of the cycle
    orders,         \* the order status updates of the current clock second
    notifications,  \* data/admin_notifications.json: bot ids, in append order
    trace,          \* what the most recent SteamBot method call did
    last,           \* the most recent administrative call and its result
    errCap          \* bound on error_count, fixed by the initial state

vars == <<now, is_running, started, bots, bot_configs, persisted, allocated,
          heap, workers, orders, notifications, trace, last, errCap>>

----------------------------------------------------------------------------
(* Bounds of the model *)

MaxClock == 1
MaxBots == 2
MaxObjs == 3
MaxNotifications == 3
ExtraErrors == 2
LifeErrCap == 2
RegErrCap == 1
ExtraCycles == 1

(* Program constants *)

MaxErrors == 10
RefreshEvery == 10
StateActive == 2
GameCS == 730
\* An app id other than GameCS, for items and bots of another game.
OtherGame == GameCS + 1

----------------------------------------------------------------------------
(* Values *)

Missing == "<missing>"
MissingInt == -1
Empty == ""

\* The key "test_bot" of _get_pending_orders_for_bot; generated ids are
\* <<n, t>> for "bot_{n}_{t}" with n >= 1.
TestBot == <<0, 0>>
LoadedBot == <<1, 0>>

Item1 == <<"123456", GameCS>>
Item2 == <<"777", GameCS>>
Item3 == <<"123456", OtherGame>>

NoInventory == [present |-> FALSE, items |-> <<>>]
BotInventory(items) == [present |-> TRUE, items |-> items]

\* Results of steam.get_inventory: a failure or an item list.
InventoryLists == {<<Item1>>, <<Item2, Item1>>}
InventoryResults == [ok : {TRUE}, items : InventoryLists]
                        \cup {[ok |-> FALSE, items |-> <<>>]}

OrderItemLists == {<<Item1>>, <<Item1, Item2>>, <<Item3>>}

PENDING == "PENDING"
SENT == "SENT"
NOT_ACCEPTED == "NOT_ACCEPTED"
COMPLETED == "COMPLETED"
NoStatus == "none"
NoOffer == "no offer"
OfferId == "offer"

\* Order ids carry their prefix and the clock second; orders holds the
\* updates of the current second, keyed by prefix.
OrderKinds == {"order", "api_order"}
NoOrders == [k \in OrderKinds |-> [status |-> NoStatus, offer_id |-> NoOffer]]

RequiredFields == {"proxy", "game_app_id", "bot_name", "username", "password",
                   "api_key", "ma_file"}

Config1 == [proxy |-> "p", game_app_id |-> GameCS, bot_name |-> "TestBot1",
            username |-> "alice", password |-> "pw", api_key |-> "k",
            ma_file |-> "f"]
Config2 == [proxy |-> "p", game_app_id |-> OtherGame, bot_name |-> "Other",
            username |-> "bob", password |-> "pw", api_key |-> "k",
            ma_file |-> "f"]
ValidConfigs == {Config1}

Falsy(f) == IF f = "game_app_id" THEN {MissingInt, 0} ELSE {Missing, Empty}
BrokenConfigs == {[Config1 EXCEPT ![f] = v] : f \in {"bot_name"}, v \in {Missing, Empty}}
                   \cup {[Config1 EXCEPT !["game_app_id"] = v] : v \in {MissingInt, 0}}
                   \cup {[Config2 EXCEPT ![f] = Empty] : f \in RequiredFields \ {"game_app_id"}}
InputConfigs == ValidConfigs \cup BrokenConfigs

\* Names as the sequences of their characters, for the List filters.
LowerChar(c) ==
    CASE c = "T" -> "t"
      [] c = "B" -> "b"
      [] c = "E" -> "e"
      [] OTHER -> c
Lower(str) == [i \in 1..Len(str) |-> LowerChar(str[i])]
Contains(str, sub) ==
    \E i \in 0..(Len(str) - Len(sub)) : \A j \in 1..Len(sub) : str[i + j] = sub[j]

ListConfigA == [Config1 EXCEPT !.bot_name = <<"T", "e", "b">>,
                               !.username = <<"a", "t">>]
ListConfigB == [Config2 EXCEPT !.bot_name = <<"B", "e", "t">>,
                               !.username = <<"b", "e">>]
NoText == <<>>
TextFilters == {NoText, <<"t">>, <<"T", "E">>, <<"b", "e">>, <<"a">>}
GameFilters == {MissingInt, 0, GameCS, OtherGame}

Stored(cfg, id, t) ==
    [proxy |-> cfg.proxy, game_app_id |-> cfg.game_app_id, bot_name |-> cfg.bot_name,
     username |-> cfg.username, password |-> cfg.password, api_key |-> cfg.api_key,
     ma_file |-> cfg.ma_file, bot_id |-> id, created_at |-> t]

ListRegistries ==
    {[id \in {TestBot, LoadedBot} |->
         Stored(IF id = TestBot THEN a ELSE b, id, 0)] :
       a \in {ListConfigA, ListConfigB}, b \in {ListConfigA, ListConfigB}}

Put(f, k, v) == [x \in DOMAIN f \cup {k} |-> IF x = k THEN v ELSE f[x]]
Del(f, k) == [x \in DOMAIN f \ {k} |-> f[x]]
EmptyMap == [x \in {} |-> 0]

----------------------------------------------------------------------------
(* SteamBot: the pure part.  A bot method is an operator on a "world" w:   *)
(*   w.bot    the SteamBot object                                           *)
(*   w.notes  data/admin_notifications.json                                 *)
(*   w.orders the order status updates                                      *)
(*   w.trace  the events of this method call, in order                      *)
(*   w.failed this method call has recorded an error                        *)

\* threading.Lock(): the thread that holds it, and the threads blocked in
\* "with self._lock".
Unlocked == [holder |-> "nobody", waiting |-> {}]

SteamBot(id, cfg) ==
    [bot_id |-> id, bot_name |-> cfg.bot_name, game_app_id |-> cfg.game_app_id,
     inventory |-> NoInventory, is_active |-> TRUE, error_count |-> 0,
     max_errors |-> MaxErrors, counter |-> 0, _lock |-> Unlocked]

World(b, n, o) ==
    [bot |-> b, notes |-> n, orders |-> o, trace |-> <<>>, failed |-> FALSE]

\* One event of a method call: a Trading Client call (or the item matching)
\* with its outcome and its argument.
Ev(call, ok, arg) == [call |-> call, ok |-> ok, arg |-> arg]

Event(w, e) == [w EXCEPT !.trace = Append(@, e)]

pause_bot_resets_errors(w) ==
    [w EXCEPT !.bot.is_active = FALSE, !.bot.error_count = 0]

pause_bot(w) == [w EXCEPT !.bot.is_active = FALSE]

resume_bot_keeps_errors(w) == [w EXCEPT !.bot.is_active = TRUE]

resume_bot(w) == [w EXCEPT !.bot.is_active = TRUE, !.bot.error_count = 0]

_notify_admin(w) == [w EXCEPT !.notes = Append(@, w.bot.bot_id)]

_handle_error(w) ==
    LET w1 == [w EXCEPT !.bot.error_count = @ + 1, !.failed = TRUE]
    IN  IF w1.bot.error_count >= w1.bot.max_errors
        THEN pause_bot(_notify_admin(w1))
        ELSE w1

_update_order_status_drops_offer(w, kind, status, offer) ==
    [w EXCEPT !.orders[kind] = [status |-> status, offer_id |-> NoOffer]]

_update_order_status(w, kind, status, offer) ==
    [w EXCEPT !.orders[kind] = [status |-> status, offer_id |-> offer]]

get_bot_inventory_drops_snapshot(w, res) ==
    LET w0 == Event(w, Ev("get_inventory", res.ok, res.items))
    IN  IF res.ok
        THEN [w |-> [w0 EXCEPT !.bot.inventory = BotInventory(res.items)],
              raised |-> FALSE]
        ELSE [w |-> _handle_error([w0 EXCEPT !.bot.inventory = NoInventory]),
              raised |-> TRUE]

\* get_bot_inventory: res is what steam.get_inventory answers.
\* Result: [w, raised].
get_bot_inventory(w, res) ==
    LET w0 == Event(w, Ev("get_inventory", res.ok, res.items))
    IN  IF res.ok
        THEN [w |-> [w0 EXCEPT !.bot.inventory = BotInventory(res.items)],
              raised |-> FALSE]
        ELSE [w |-> _handle_error(w0), raised |-> TRUE]

Matches_assetid_only(item, target) == item[1] = target[1]

\* The comparison of find_items_in_inventory: same assetid and same appid.
Matches(item, target) == item[1] = target[1] /\ item[2] = target[2]

InInventory(items, target) ==
    \E i \in 1..Len(items) : Matches(items[i], target)

FirstMatch(items, target) ==
    LET i == CHOOSE j \in 1..Len(items) :
                 /\ Matches(items[j], target)
                 /\ \A k \in 1..(j - 1) : ~Matches(items[k], target)
    IN  items[i]

\* The matching loop of find_items_in_inventory: for each target in turn, the
\* first inventory item with the same assetid and appid, if there is one.
RECURSIVE MatchItems(_, _)
MatchItems(items, targets) ==
    IF targets = <<>> THEN <<>>
    ELSE LET rest == MatchItems(items, Tail(targets))
         IN  IF InInventory(items, Head(targets))
             THEN <<FirstMatch(items, Head(targets))>> \o rest
             ELSE rest

\* find_items_in_inventory: fetch is the answer of steam.get_inventory should
\* the bot have no snapshot.  Result: [w, raised, found].
find_items_in_inventory(w, targets, fetch) ==
    LET r == IF ~w.bot.inventory.present
             THEN get_bot_inventory(w, fetch)
             ELSE [w |-> w, raised |-> FALSE]
    IN  IF r.raised
        THEN [w |-> r.w, raised |-> TRUE, found |-> <<>>]
        ELSE [w |-> Event(r.w, Ev("match", TRUE, r.w.bot.inventory.items)),
              raised |-> FALSE,
              found |-> MatchItems(r.w.bot.inventory.items, targets)]

send_trade_offer_counts_missing(w, order, fetch, sendOk, refresh) ==
    LET f == find_items_in_inventory(Event(w, Ev("SendTradeOffer", TRUE, order)),
                                     order.items, fetch)
    IN  IF f.raised
        THEN [w |-> _handle_error(f.w), ret |-> FALSE]
        ELSE IF Len(f.found) # Len(order.items)
        THEN [w |-> _handle_error(_update_order_status(f.w, order.kind, PENDING, NoOffer)),
              ret |-> FALSE]
        ELSE LET w1 == Event(f.w, Ev("send_trade_offer", sendOk, f.found))
             IN  IF ~sendOk
                 THEN [w |-> _handle_error(w1), ret |-> FALSE]
                 ELSE LET w2 == _update_order_status(w1, order.kind, SENT, OfferId)
                          g == get_bot_inventory(w2, refresh)
                      IN  IF g.raised
                          THEN [w |-> _handle_error(g.w), ret |-> FALSE]
                          ELSE [w |-> g.w, ret |-> TRUE]

\* send_trade_offer: order = [kind, items]; fetch, sendOk, refresh are the
\* answers of the Trading Client.  Result: [w, ret].
send_trade_offer(w, order, fetch, sendOk, refresh) ==
    LET f == find_items_in_inventory(Event(w, Ev("SendTradeOffer", TRUE, order)),
                                     order.items, fetch)
    IN  IF f.raised
        THEN [w |-> _handle_error(f.w), ret |-> FALSE]
        ELSE IF Len(f.found) # Len(order.items)
        THEN [w |-> _update_order_status(f.w, order.kind, PENDING, NoOffer),
              ret |-> FALSE]
        ELSE LET w1 == Event(f.w, Ev("send_trade_offer", sendOk, f.found))
             IN  IF ~sendOk
                 THEN [w |-> _handle_error(w1), ret |-> FALSE]
                 ELSE LET w2 == _update_order_status(w1, order.kind, SENT, OfferId)
                          g == get_bot_inventory(w2, refresh)
                      IN  IF g.raised
                          THEN [w |-> _handle_error(g.w), ret |-> FALSE]
                          ELSE [w |-> g.w, ret |-> TRUE]

\* _check_offer_status is a stub: it answers 'pending' for every offer.
_check_offer_status(offer_id) == "pending"

\* The loop of sync_trade_status over the sent orders read from the store.
RECURSIVE SyncLoop(_, _)
SyncLoop(w, sent) ==
    IF sent = <<>> THEN w
    ELSE LET o == Head(sent)
             st == _check_offer_status(o.offer_id)
             w1 == IF o.offer_id = NoOffer THEN w
                   ELSE IF st = "accepted"
                   THEN _update_order_status(w, o.kind, COMPLETED, NoOffer)
                   ELSE IF st = "declined" \/ st = "expired"
                   THEN _update_order_status(w, o.kind, NOT_ACCEPTED, NoOffer)
                   ELSE w
         IN  SyncLoop(w1, Tail(sent))

\* sync_trade_status: res is the read of the sent-orders file.  It never
\* raises.
sync_trade_status(w, res) ==
    LET w0 == Event(w, Ev("_get_sent_orders_from_db", res.ok, res.sent))
    IN  IF res.ok THEN SyncLoop(w0, res.sent) ELSE _handle_error(w0)

\* What the read of the sent-orders file gives: a failure, or the sent
\* orders.  remote is the state of the order's offer at the Trading Client,
\* which nothing in sync_trade_status reads.
RemoteStates == {"accepted", "declined", "pending"}
SentOrders(remote) ==
    <<[kind |-> "order", offer_id |-> OfferId, remote |-> remote],
      [kind |-> "api_order", offer_id |-> NoOffer, remote |-> "pending"]>>
SentResults == {[ok |-> FALSE, sent |-> <<>>], [ok |-> TRUE, sent |-> <<>>]}
                 \cup {[ok |-> TRUE, sent |-> SentOrders(remote)] : remote \in RemoteStates}

\* The cancel loop of get_trade_offers from offer i on: every received offer
\* in the active state is cancelled.  The cancel of offer res.failAt raises;
\* the cancel of offer res.refuseAt is answered without success, which
\* steam.cancel_trade_offer returns as False and the loop does not look at.
\* Result: [w, raised].
RECURSIVE CancelLoop_every_offer(_, _, _)
CancelLoop_every_offer(w, res, i) ==
    IF i > Len(res.received) THEN [w |-> w, raised |-> FALSE]
    ELSE IF i = res.failAt
    THEN [w |-> Event(w, Ev("cancel_trade_offer", FALSE, <<i>>)), raised |-> TRUE]
    ELSE CancelLoop_every_offer(Event(w, Ev("cancel_trade_offer", i # res.refuseAt, <<i>>)),
                                res, i + 1)

RECURSIVE CancelLoop(_, _, _)
CancelLoop(w, res, i) ==
    IF i > Len(res.received) THEN [w |-> w, raised |-> FALSE]
    ELSE IF res.received[i] # StateActive THEN CancelLoop(w, res, i + 1)
    ELSE IF i = res.failAt
    THEN [w |-> Event(w, Ev("cancel_trade_offer", FALSE, <<i>>)), raised |-> TRUE]
    ELSE CancelLoop(Event(w, Ev("cancel_trade_offer", i # res.refuseAt, <<i>>)),
                    res, i + 1)

\* get_trade_offers: res = [ok, received, failAt, refuseAt] is what the
\* Trading Client answers; received holds the trade_offer_state of each
\* received offer.  Result: [w, raised].
get_trade_offers_keeps_count(w, res) ==
    LET w0 == Event(w, Ev("get_trade_offers", res.ok, res.received))
    IN  IF ~res.ok
        THEN [w |-> _handle_error(w0), raised |-> TRUE]
        ELSE LET c == CancelLoop(w0, res, 1)
             IN  IF c.raised
                 THEN [w |-> _handle_error(c.w), raised |-> TRUE]
                 ELSE [w |-> c.w, raised |-> FALSE]

get_trade_offers(w, res) ==
    LET w0 == Event(w, Ev("get_trade_offers", res.ok, res.received))
    IN  IF ~res.ok
        THEN [w |-> _handle_error(w0), raised |-> TRUE]
        ELSE LET c == CancelLoop(w0, res, 1)
             IN  IF c.raised
                 THEN [w |-> _handle_error(c.w), raised |-> TRUE]
                 ELSE [w |-> [c.w EXCEPT !.bot.error_count = 0], raised |-> FALSE]

StateOther == StateActive + 1
ReceivedOffers == <<StateActive, StateOther, StateActive>>
OfferResults ==
    {[ok |-> FALSE, received |-> <<>>, failAt |-> 0, refuseAt |-> 0],
     [ok |-> TRUE, received |-> <<>>, failAt |-> 0, refuseAt |-> 0],
     [ok |-> TRUE, received |-> ReceivedOffers, failAt |-> 0, refuseAt |-> 0],
     [ok |-> TRUE, received |-> ReceivedOffers, failAt |-> 1, refuseAt |-> 0],
     [ok |-> TRUE, received |-> ReceivedOffers, failAt |-> 0, refuseAt |-> 1]}

\* _get_pending_orders_for_bot is a stub: one order, for the bot "test_bot".
_get_pending_orders_for_bot(id) ==
    IF id = TestBot THEN <<[kind |-> "order", items |-> <<Item1>>]>> ELSE <<>>

----------------------------------------------------------------------------
(* The state machine *)

Min(a, b) == IF a < b THEN a ELSE b

Refs == 1..Len(heap)

\* The world a method of the bot at reference r runs in.
W(r) == World(heap[r], notifications, orders)

\* The answers a first inventory fetch of the bot at r may get: it is made
\* only when the bot has no snapshot.
FetchResults(r) ==
    IF heap[r].inventory.present THEN {[ok |-> FALSE, items |-> <<>>]}
    ELSE InventoryResults

\* A failure is injected only while the counters stay within the bounds.
Bounded(w) ==
    /\ w.bot.error_count <= errCap
    /\ Len(w.notes) <= MaxNotifications

Commit_shared_flag(r, w) ==
    /\ Bounded(w)
    /\ heap' = [q \in Refs |-> IF q = r THEN w.bot
                                ELSE [heap[q] EXCEPT !.is_active = w.bot.is_active]]
    /\ notifications' = w.notes
    /\ orders' = w.orders
    /\ trace' = w.trace

\* The effect of a bot method on the state.
Commit(r, w) ==
    /\ Bounded(w)
    /\ heap' = [heap EXCEPT ![r] = w.bot]
    /\ notifications' = w.notes
    /\ orders' = w.orders
    /\ trace' = w.trace

\* The record of an administrative call: the operation, its bot id, what it
\* reported, and what held just before it:
\*   known       the id was in the registry
\*   preActive   (pause, restart) the registry's bot was active
\*               (load) every bot of the manager before it was active
\*   afterPause  (resume) the call before it was a successful pause of the id
\*   preMax      (resume) the bot's error_count had reached max_errors
\*   force       (restart) the force argument
\*   hadWorker   (restart) a worker of the registry's bot had not ended
\*   fresh       (create) the id had never been handed out before
\*   overwrote   (create) the id was in the registry
NoCall == [op |-> "none", id |-> TestBot, ok |-> TRUE, known |-> FALSE,
           preActive |-> FALSE, afterPause |-> FALSE, preMax |-> FALSE,
           force |-> FALSE, hadWorker |-> FALSE,
           fresh |-> TRUE, overwrote |-> FALSE]

Last(op, id, ok) ==
    [NoCall EXCEPT !.op = op, !.id = id, !.ok = ok, !.known = id \in DOMAIN bots]

PreActive(id) == id \in DOMAIN bots /\ heap[bots[id]].is_active

\* The workers that have not ended and drive a bot object with this id.
LiveWorkers(id) ==
    {r \in DOMAIN workers : workers[r].pc # "done" /\ heap[r].bot_id = id}

\* An id no bot ever has.
GhostId == <<MaxBots + 2, 0>>

\* The bot ids an administrative caller may name.
CallIds == DOMAIN bots \cup allocated \cup {GhostId}

Registry == <<bots, bot_configs, persisted, allocated>>

\* _generate_bot_id: "bot_{len(bot_configs) + 1}_{timestamp}".
_generate_bot_id == <<Cardinality(DOMAIN bot_configs) + 1, now>>

\* BotManager._load_bot_configs with every bot constructed: the registry
\* after BotManager() over the stored configurations cfgs.
LoadedHeap(cfgs) ==
    LET RECURSIVE Build(_)
        Build(ids) ==
            IF ids = {} THEN <<>>
            ELSE LET id == CHOOSE x \in ids : TRUE
                 IN  <<SteamBot(id, cfgs[id])>> \o Build(ids \ {id})
    IN  Build(DOMAIN cfgs)

InitWith(cfgs, cap) ==
    /\ now = 0
    /\ is_running = TRUE
    /\ started = FALSE
    /\ bot_configs = cfgs
    /\ persisted = cfgs
    /\ allocated = {}
    /\ heap = LoadedHeap(cfgs)
    /\ bots = [id \in DOMAIN cfgs |->
                  CHOOSE r \in 1..Len(LoadedHeap(cfgs)) : LoadedHeap(cfgs)[r].bot_id = id]
    /\ workers = EmptyMap
    /\ orders = NoOrders
    /\ notifications = <<>>
    /\ trace = <<>>
    /\ last = NoCall
    /\ errCap = cap

(* BotOrchestrator *)

\* A worker task: pc is its position in bot_worker.  History: start is the
\* bot's error_count when the cycle began, failed whether a call of the cycle
\* has recorded an error, streak the number of cycles with a failure in a row
\* up to the last finished cycle (counted up to MaxErrors + 1).
\* loaded is the error_count the worker has read in "self.error_count += 1"
\* and not yet written back.
NewWorker ==
    [pc |-> "loop", start |-> 0, failed |-> FALSE, streak |-> 0, loaded |-> 0]

At(r, pc) == r \in DOMAIN workers /\ workers[r].pc = pc

\* The worker at r moves to pc after a method call in world w; the history
\* is kept when track is set.
Goto(r, pc, w, track) ==
    workers' = [workers EXCEPT ![r].pc = pc,
                               ![r].failed = track /\ (@ \/ w.failed)]

EndCycle_escapes(r, pc, w, track) ==
    workers' = [workers EXCEPT
                  ![r].pc = IF pc = "cooldown" THEN "done" ELSE pc,
                  ![r].failed = track /\ (@ \/ w.failed),
                  ![r].streak = 0]

EndCycle_ordinary_wait(r, pc, w, track) ==
    workers' = [workers EXCEPT
                  ![r].pc = "sleep",
                  ![r].failed = track /\ (@ \/ w.failed),
                  ![r].streak = IF track /\ (workers[r].failed \/ w.failed)
                                THEN Min(@ + 1, MaxErrors + 1) ELSE 0]

\* The worker at r ends its cycle with the given wait.
EndCycle(r, pc, w, track) ==
    workers' = [workers EXCEPT
                  ![r].pc = pc,
                  ![r].failed = track /\ (@ \/ w.failed),
                  ![r].streak = IF track /\ (workers[r].failed \/ w.failed)
                                THEN Min(@ + 1, MaxErrors + 1) ELSE 0]

run_all_bots_again ==
    /\ started' = TRUE
    /\ workers' = [r \in DOMAIN workers
                          \cup {bots[id] : id \in {i \in DOMAIN bots : heap[bots[i]].is_active}}
                     |-> IF r \in DOMAIN workers THEN workers[r] ELSE NewWorker]
    /\ UNCHANGED <<now, is_running, Registry, heap, orders, notifications, trace,
                   last, errCap>>

\* run_all_bots: one worker task per bot that is active at startup.
run_all_bots ==
    /\ ~started
    /\ started' = TRUE
    /\ workers' = [r \in {bots[id] : id \in {i \in DOMAIN bots : heap[bots[i]].is_active}}
                     |-> NewWorker]
    /\ UNCHANGED <<now, is_running, Registry, heap, orders, notifications, trace,
                   last, errCap>>

stop ==
    /\ started /\ is_running
    /\ is_running' = FALSE
    /\ UNCHANGED <<now, started, Registry, heap, workers, orders, notifications,
                   trace, last, errCap>>

\* "while self.is_running and bot.is_active"
WorkerLoop(r, track) ==
    /\ At(r, "loop")
    /\ workers' = [workers EXCEPT
                      ![r].pc = IF is_running /\ heap[r].is_active
                                THEN "step1" ELSE "done",
                      ![r].start = IF track THEN heap[r].error_count ELSE 0,
                      ![r].failed = FALSE]
    /\ UNCHANGED <<now, is_running, started, Registry, heap, orders, notifications,
                   trace, last, errCap>>

WorkerStep1_goes_on(r, track) ==
    /\ At(r, "step1")
    /\ \E res \in OfferResults :
          LET g == get_trade_offers(W(r), res)
          IN  Commit(r, g.w) /\ Goto(r, "step2", g.w, track)
    /\ UNCHANGED <<now, is_running, started, Registry, last, errCap>>

\* Step 1: bot.get_trade_offers()
WorkerStep1(r, track) ==
    /\ At(r, "step1")
    /\ \E res \in OfferResults :
          LET g == get_trade_offers(W(r), res)
          IN  /\ Commit(r, g.w)
              /\ IF g.raised THEN EndCycle(r, "cooldown", g.w, track)
                 ELSE Goto(r, "step2", g.w, track)
    /\ UNCHANGED <<now, is_running, started, Registry, last, errCap>>

\* Step 1 when the Trading Client fails, in the two parts another thread can
\* come between: _handle_error runs "self.error_count += 1" outside
\* self._lock, so the read of error_count and the write of the sum are two
\* steps.  First the call fails and error_count is read.
WorkerStep1Raises(r) ==
    /\ At(r, "step1")
    /\ heap[r].error_count + 1 <= errCap
    /\ trace' = <<Ev("get_trade_offers", FALSE, <<>>)>>
    /\ workers' = [workers EXCEPT ![r].pc = "step1_store",
                                  ![r].loaded = heap[r].error_count]
    /\ UNCHANGED <<now, is_running, started, Registry, heap, orders, notifications,
                   last, errCap>>

\* Then the sum is written and the rest of _handle_error runs.
WorkerStep1HandlesError(r) ==
    /\ At(r, "step1_store")
    /\ LET w == _handle_error([W(r) EXCEPT !.bot.error_count = workers[r].loaded])
       IN  Commit(r, w) /\ EndCycle(r, "cooldown", w, FALSE)
    /\ UNCHANGED <<now, is_running, started, Registry, last, errCap>>

\* Step 2: bot.sync_trade_status()
WorkerStep2(r, track) ==
    /\ At(r, "step2")
    /\ \E res \in SentResults :
          LET w == sync_trade_status(W(r), res)
          IN  Commit(r, w) /\ Goto(r, "step3", w, track)
    /\ UNCHANGED <<now, is_running, started, Registry, last, errCap>>

\* Step 3: bot.send_trade_offer(order) for each pending order (at most one).
WorkerStep3(r, track) ==
    /\ At(r, "step3")
    /\ LET pending == _get_pending_orders_for_bot(heap[r].bot_id)
       IN  IF pending = <<>>
           THEN /\ UNCHANGED <<heap, notifications, orders, trace>>
                /\ Goto(r, "step4", W(r), track)
           ELSE \E fetch \in FetchResults(r), sendOk \in BOOLEAN,
                   refresh \in InventoryResults :
                   LET s == send_trade_offer(W(r), pending[1], fetch, sendOk, refresh)
                   IN  Commit(r, s.w) /\ Goto(r, "step4", s.w, track)
    /\ UNCHANGED <<now, is_running, started, Registry, last, errCap>>

WorkerStep4_always_resets(r, track) ==
    /\ At(r, "step4")
    /\ LET w1 == [W(r) EXCEPT !.bot.counter = @ + 1]
       IN  IF w1.bot.counter >= RefreshEvery
           THEN \E res \in InventoryResults :
                   LET g == get_bot_inventory(w1, res)
                   IN  /\ Commit(r, [g.w EXCEPT !.bot.counter = 0])
                       /\ EndCycle(r, IF g.raised THEN "cooldown" ELSE "sleep", g.w, track)
           ELSE /\ Commit(r, w1)
                /\ EndCycle(r, "sleep", w1, track)
    /\ UNCHANGED <<now, is_running, started, Registry, last, errCap>>

\* Step 4: the periodic inventory refresh.
WorkerStep4(r, track) ==
    /\ At(r, "step4")
    /\ LET w1 == [W(r) EXCEPT !.bot.counter = @ + 1]
       IN  IF w1.bot.counter >= RefreshEvery
           THEN \E res \in InventoryResults :
                   LET g == get_bot_inventory(w1, res)
                   IN  /\ g.raised => w1.bot.counter < RefreshEvery + ExtraCycles
                       /\ Commit(r, IF g.raised THEN g.w
                                    ELSE [g.w EXCEPT !.bot.counter = 0])
                       /\ EndCycle(r, IF g.raised THEN "cooldown" ELSE "sleep", g.w, track)
           ELSE /\ Commit(r, w1)
                /\ EndCycle(r, "sleep", w1, track)
    /\ UNCHANGED <<now, is_running, started, Registry, last, errCap>>

\* asyncio.sleep(30) after a cycle, asyncio.sleep(300) after an exception:
\* the clock moves on, so later order ids are new ones.
WorkerSleep(r) ==
    /\ At(r, "sleep")
    /\ workers' = [workers EXCEPT ![r].pc = "loop"]
    /\ now' = Min(now + 1, MaxClock)
    /\ orders' = NoOrders
    /\ UNCHANGED <<is_running, started, Registry, heap, notifications, trace,
                   last, errCap>>

WorkerCooldown(r) ==
    /\ At(r, "cooldown")
    /\ workers' = [workers EXCEPT ![r].pc = "loop"]
    /\ now' = Min(now + 1, MaxClock)
    /\ orders' = NoOrders
    /\ UNCHANGED <<is_running, started, Registry, heap, notifications, trace,
                   last, errCap>>

(* The lock of a bot, step by step *)

\* In the actions above pause_bot and resume_bot are one step each, and the
\* lock is free before and after it.  Below, a call of either is three
\* steps: the thread blocks on the lock, acquires it, and runs the body and
\* releases it.  The threads: the event loop that runs the workers (it
\* calls pause_bot from _handle_error), the scheduler thread (resume_bot
\* from _health_check_job) and the thread of the administrative callers
\* (pause_bot).
Threads == {"worker", "scheduler", "admin"}

\* Thread t is not inside a call of pause_bot or resume_bot.
Idle(t) ==
    \A q \in Refs : heap[q]._lock.holder # t /\ t \notin heap[q]._lock.waiting

\* Thread t calls pause_bot or resume_bot on the registered bot at r and
\* reaches "with self._lock".
LockWait(r, t) ==
    /\ t \in {"scheduler", "admin"}
    /\ Idle(t)
    /\ \E id \in DOMAIN bots : bots[id] = r
    /\ t = "scheduler" => (started /\ ~heap[r].is_active)
    /\ heap' = [heap EXCEPT ![r]._lock.waiting = @ \cup {t}]
    /\ UNCHANGED <<now, is_running, started, Registry, workers, orders,
                   notifications, trace, last, errCap>>

\* The lock is free and goes to one of the threads blocked on it.
LockAcquire(r, t) ==
    /\ r \in Refs
    /\ t \in heap[r]._lock.waiting
    /\ heap[r]._lock.holder = Unlocked.holder
    /\ heap' = [heap EXCEPT ![r]._lock = [holder |-> t, waiting |-> @.waiting \ {t}]]
    /\ UNCHANGED <<now, is_running, started, Registry, workers, orders,
                   notifications, trace, last, errCap>>

\* The holder runs the body of pause_bot (resume_bot for the scheduler) and
\* leaves the with block; the worker goes on in _handle_error, whose caller
\* raises again, and so to the wait after an exception.
LockRelease(r, t) ==
    /\ r \in Refs
    /\ heap[r]._lock.holder = t
    /\ LET body == IF t = "scheduler" THEN resume_bot(W(r)) ELSE pause_bot(W(r))
       IN  heap' = [heap EXCEPT
                      ![r] = [body.bot EXCEPT !._lock.holder = Unlocked.holder]]
    /\ workers' = IF t = "worker"
                  THEN [workers EXCEPT ![r].pc = "cooldown"]
                  ELSE workers
    /\ UNCHANGED <<now, is_running, started, Registry, orders, notifications,
                   trace, last, errCap>>

WorkerEscalates_holding_lock(r) ==
    /\ At(r, "step1")
    /\ Idle("worker")
    /\ heap[r].error_count + 1 >= heap[r].max_errors
    /\ heap[r]._lock.holder = Unlocked.holder
    /\ LET w0 == Event(W(r), Ev("get_trade_offers", FALSE, <<>>))
           w1 == _notify_admin([w0 EXCEPT !.bot.error_count = @ + 1,
                                          !.failed = TRUE])
       IN  /\ Bounded(w1)
           /\ heap' = [heap EXCEPT
                          ![r] = [w1.bot EXCEPT
                                    !._lock = [holder |-> "worker",
                                               waiting |-> @.waiting \cup {"worker"}]]]
           /\ notifications' = w1.notes
           /\ trace' = w1.trace
    /\ workers' = [workers EXCEPT ![r].pc = "step1_pause"]
    /\ UNCHANGED <<now, is_running, started, Registry, orders, last, errCap>>

\* Step 1 when the Trading Client fails and error_count reaches max_errors:
\* _handle_error counts the failure, notifies the administrator and calls
\* self.pause_bot(), holding no lock.
WorkerEscalates(r) ==
    /\ At(r, "step1")
    /\ Idle("worker")
    /\ heap[r].error_count + 1 >= heap[r].max_errors
    /\ LET w0 == Event(W(r), Ev("get_trade_offers", FALSE, <<>>))
           w1 == _notify_admin([w0 EXCEPT !.bot.error_count = @ + 1,
                                          !.failed = TRUE])
       IN  /\ Bounded(w1)
           /\ heap' = [heap EXCEPT
                          ![r] = [w1.bot EXCEPT !._lock.waiting = @ \cup {"worker"}]]
           /\ notifications' = w1.notes
           /\ trace' = w1.trace
    /\ workers' = [workers EXCEPT ![r].pc = "step1_pause"]
    /\ UNCHANGED <<now, is_running, started, Registry, orders, last, errCap>>

\* _health_check_job: resume_bot for every listed bot that is not active.
_health_check_job ==
    /\ started
    /\ \E id \in DOMAIN bots \cap DOMAIN bot_configs : ~heap[bots[id]].is_active
    /\ heap' = [r \in Refs |->
                  IF \E id \in DOMAIN bots \cap DOMAIN bot_configs :
                        bots[id] = r /\ ~heap[r].is_active
                  THEN resume_bot(W(r)).bot ELSE heap[r]]
    /\ trace' = <<>>
    /\ UNCHANGED <<now, is_running, started, Registry, workers, orders,
                   notifications, last, errCap>>

\* Time passes.
Tick ==
    /\ now < MaxClock
    /\ now' = now + 1
    /\ orders' = NoOrders
    /\ UNCHANGED <<is_running, started, Registry, heap, workers, notifications,
                   trace, last, errCap>>

(* BotManager *)

Validate(cfg) == \A f \in RequiredFields : cfg[f] \notin Falsy(f)

\* create_bot: ctorOk is whether SteamBot(...) can be constructed.
create_bot(cfg, ctorOk) ==
    LET id == _generate_bot_id
    IN  IF ~Validate(cfg) \/ ~ctorOk
        THEN /\ last' = [Last("create", id, FALSE) EXCEPT !.known = FALSE]
             /\ UNCHANGED <<Registry, heap>>
        ELSE /\ Cardinality(DOMAIN bot_configs) < MaxBots
             /\ Len(heap) < MaxObjs
             /\ bot_configs' = Put(bot_configs, id, Stored(cfg, id, now))
             /\ heap' = Append(heap, SteamBot(id, cfg))
             /\ bots' = Put(bots, id, Len(heap) + 1)
             /\ persisted' = bot_configs'
             /\ allocated' = allocated \cup {id}
             /\ last' = [Last("create", id, TRUE) EXCEPT
                            !.fresh = id \notin allocated,
                            !.overwrote = id \in DOMAIN bots]

BotManager_create_bot ==
    /\ \E cfg \in InputConfigs, ctorOk \in BOOLEAN : create_bot(cfg, ctorOk)
    /\ UNCHANGED <<now, is_running, started, workers, orders, notifications,
                   trace, errCap>>

BotManager_pause_bot(id) ==
    /\ IF id \in DOMAIN bots
       THEN /\ heap' = [heap EXCEPT ![bots[id]] = pause_bot(W(bots[id])).bot]
            /\ last' = [Last("pause", id, TRUE) EXCEPT !.preActive = PreActive(id)]
       ELSE /\ heap' = heap
            /\ last' = Last("pause", id, FALSE)
    /\ trace' = <<>>
    /\ UNCHANGED <<now, is_running, started, Registry, workers, orders,
                   notifications, errCap>>

BotManager_resume_bot(id) ==
    /\ IF id \in DOMAIN bots
       THEN /\ heap' = [heap EXCEPT ![bots[id]] = resume_bot(W(bots[id])).bot]
            /\ last' = [Last("resume", id, TRUE) EXCEPT
                           !.afterPause = (last.op = "pause" /\ last.ok /\ last.id = id),
                           !.preMax = (heap[bots[id]].error_count
                                         >= heap[bots[id]].max_errors)]
       ELSE /\ heap' = heap
            /\ last' = Last("resume", id, FALSE)
    /\ trace' = <<>>
    /\ UNCHANGED <<now, is_running, started, Registry, workers, orders,
                   notifications, errCap>>

BotManager_restart_bot_keeps_state(id, force, ctorOk) ==
    /\ IF id \notin DOMAIN bots
       THEN /\ last' = Last("restart", id, FALSE)
            /\ UNCHANGED <<bots, heap>>
       ELSE LET h1 == IF force THEN heap
                      ELSE [heap EXCEPT ![bots[id]] = pause_bot(W(bots[id])).bot]
            IN  IF id \notin DOMAIN bot_configs \/ ~ctorOk
                THEN /\ heap' = h1
                     /\ bots' = bots
                     /\ last' = [Last("restart", id, FALSE) EXCEPT
                                    !.preActive = PreActive(id), !.force = force]
                ELSE /\ Len(heap) < MaxObjs
                     /\ heap' = Append(h1, [heap[bots[id]] EXCEPT !.is_active = TRUE])
                     /\ bots' = [bots EXCEPT ![id] = Len(heap) + 1]
                     /\ last' = [Last("restart", id, TRUE) EXCEPT
                                    !.preActive = PreActive(id), !.force = force,
                                    !.hadWorker = (bots[id] \in LiveWorkers(id))]
    /\ trace' = <<>>
    /\ UNCHANGED <<now, is_running, started, bot_configs, persisted, allocated,
                   workers, orders, notifications, errCap>>

BotManager_restart_bot_pauses_first(id, force, ctorOk) ==
    /\ IF id \notin DOMAIN bots
       THEN /\ last' = Last("restart", id, FALSE)
            /\ UNCHANGED <<bots, heap>>
       ELSE LET h1 == [heap EXCEPT ![bots[id]] = pause_bot(W(bots[id])).bot]
            IN  IF id \notin DOMAIN bot_configs \/ ~ctorOk
                THEN /\ heap' = h1
                     /\ bots' = bots
                     /\ last' = [Last("restart", id, FALSE) EXCEPT
                                    !.preActive = PreActive(id), !.force = force]
                ELSE /\ Len(heap) < MaxObjs
                     /\ heap' = Append(h1, SteamBot(id, bot_configs[id]))
                     /\ bots' = [bots EXCEPT ![id] = Len(heap) + 1]
                     /\ last' = [Last("restart", id, TRUE) EXCEPT
                                    !.preActive = PreActive(id), !.force = force,
                                    !.hadWorker = (bots[id] \in LiveWorkers(id))]
    /\ trace' = <<>>
    /\ UNCHANGED <<now, is_running, started, bot_configs, persisted, allocated,
                   workers, orders, notifications, errCap>>

\* restart_bot: the old bot is paused unless force; the new bot is built from
\* the stored configuration and put in its place.  No worker is created.
BotManager_restart_bot(id, force, ctorOk) ==
    /\ IF id \notin DOMAIN bots
       THEN /\ last' = Last("restart", id, FALSE)
            /\ UNCHANGED <<bots, heap>>
       ELSE LET h1 == IF force THEN heap
                      ELSE [heap EXCEPT ![bots[id]] = pause_bot(W(bots[id])).bot]
            IN  IF id \notin DOMAIN bot_configs \/ ~ctorOk
                THEN /\ heap' = h1
                     /\ bots' = bots
                     /\ last' = [Last("restart", id, FALSE) EXCEPT
                                    !.preActive = PreActive(id), !.force = force]
                ELSE /\ Len(heap) < MaxObjs
                     /\ heap' = Append(h1, SteamBot(id, bot_configs[id]))
                     /\ bots' = [bots EXCEPT ![id] = Len(heap) + 1]
                     /\ last' = [Last("restart", id, TRUE) EXCEPT
                                    !.preActive = PreActive(id), !.force = force,
                                    !.hadWorker = (bots[id] \in LiveWorkers(id))]
    /\ trace' = <<>>
    /\ UNCHANGED <<now, is_running, started, bot_configs, persisted, allocated,
                   workers, orders, notifications, errCap>>

BotManager_delete_bot_keeps_object(id) ==
    /\ IF id \in DOMAIN bots
       THEN /\ heap' = [heap EXCEPT ![bots[id]] = pause_bot(W(bots[id])).bot]
            /\ bots' = bots
            /\ bot_configs' = Del(bot_configs, id)
            /\ persisted' = bot_configs'
            /\ last' = Last("delete", id, TRUE)
       ELSE /\ UNCHANGED <<heap, bots, bot_configs, persisted>>
            /\ last' = Last("delete", id, FALSE)
    /\ trace' = <<>>
    /\ UNCHANGED <<now, is_running, started, allocated, workers, orders,
                   notifications, errCap>>

BotManager_delete_bot(id) ==
    /\ IF id \in DOMAIN bots
       THEN /\ heap' = [heap EXCEPT ![bots[id]] = pause_bot(W(bots[id])).bot]
            /\ bots' = Del(bots, id)
            /\ bot_configs' = Del(bot_configs, id)
            /\ persisted' = bot_configs'
            /\ last' = Last("delete", id, TRUE)
       ELSE /\ UNCHANGED <<heap, bots, bot_configs, persisted>>
            /\ last' = Last("delete", id, FALSE)
    /\ trace' = <<>>
    /\ UNCHANGED <<now, is_running, started, allocated, workers, orders,
                   notifications, errCap>>

_load_bot_configs_drops_failed(failing) ==
    LET cfgs == [id \in DOMAIN persisted \ failing |-> persisted[id]]
    IN  /\ bot_configs' = cfgs
        /\ heap' = LoadedHeap(cfgs)
        /\ bots' = [id \in DOMAIN cfgs |->
                       CHOOSE r \in 1..Len(LoadedHeap(cfgs)) :
                           LoadedHeap(cfgs)[r].bot_id = id]
        /\ workers' = EmptyMap
        /\ started' = FALSE
        /\ trace' = <<>>
        /\ last' = [NoCall EXCEPT
                       !.op = "load",
                       !.preActive = \A id \in DOMAIN bots : heap[bots[id]].is_active]
        /\ UNCHANGED <<now, is_running, persisted, allocated, orders,
                       notifications, errCap>>

\* BotManager() over the persisted store: _load_bot_configs reads the stored
\* configurations and constructs a bot for each; failing are the ids whose
\* SteamBot(...) cannot be constructed, which keep their configuration and
\* get no bot object.  The bot objects of the manager before it are dropped.
_load_bot_configs(failing) ==
    LET cfgs == [id \in DOMAIN persisted \ failing |-> persisted[id]]
    IN  /\ bot_configs' = persisted
        /\ heap' = LoadedHeap(cfgs)
        /\ bots' = [id \in DOMAIN cfgs |->
                       CHOOSE r \in 1..Len(LoadedHeap(cfgs)) :
                           LoadedHeap(cfgs)[r].bot_id = id]
        /\ workers' = EmptyMap
        /\ started' = FALSE
        /\ trace' = <<>>
        /\ last' = [NoCall EXCEPT
                       !.op = "load",
                       !.preActive = \A id \in DOMAIN bots : heap[bots[id]].is_active]
        /\ UNCHANGED <<now, is_running, persisted, allocated, orders,
                       notifications, errCap>>

\* get_bot_inventory_manual: the administrator's inventory fetch; results are
\* the answers the Trading Client may give.
BotManager_get_bot_inventory_manual(id, results) ==
    /\ IF id \in DOMAIN bots
       THEN \E res \in results :
               LET g == get_bot_inventory(W(bots[id]), res)
               IN  /\ Commit(bots[id], g.w)
                   /\ last' = Last("inventory", id, ~g.raised)
       ELSE /\ UNCHANGED <<heap, notifications, orders, trace>>
            /\ last' = Last("inventory", id, FALSE)
    /\ UNCHANGED <<now, is_running, started, Registry, workers, errCap>>

\* get_bot_list: the listed bots that pass every filter of the dictionary
\* filters (keys among name, game_app_id, username); an empty dictionary
\* filters nothing.
get_bot_list(filters) ==
    LET bot_info(id) ==
            [bot_id |-> id,
             bot_name |-> bot_configs[id].bot_name,
             username |-> bot_configs[id].username,
             game_app_id |-> bot_configs[id].game_app_id,
             is_active |-> IF id \in DOMAIN bots THEN heap[bots[id]].is_active
                           ELSE FALSE,
             error_count |-> IF id \in DOMAIN bots THEN heap[bots[id]].error_count
                             ELSE 0]
        Skip(info) ==
            /\ DOMAIN filters # {}
            /\ \/ /\ "name" \in DOMAIN filters
                   /\ ~Contains(Lower(info.bot_name), Lower(filters.name))
               \/ /\ "game_app_id" \in DOMAIN filters
                   /\ filters.game_app_id # info.game_app_id
               \/ /\ "username" \in DOMAIN filters
                   /\ ~Contains(Lower(info.username), Lower(filters.username))
    IN  {bot_info(id) : id \in {i \in DOMAIN bot_configs : ~Skip(bot_info(i))}}

(* api_server *)

\* GET /api/bots: a query parameter becomes a filter when it is truthy.
Filters(name, game_app_id, username) ==
    LET keys == (IF name # NoText THEN {"name"} ELSE {})
                  \cup (IF game_app_id \notin Falsy("game_app_id")
                        THEN {"game_app_id"} ELSE {})
                  \cup (IF username # NoText THEN {"username"} ELSE {})
    IN  [k \in keys |-> CASE k = "name" -> name
                           [] k = "game_app_id" -> game_app_id
                           [] OTHER -> username]

get_bots_pauses_listed(name, game_app_id, username) ==
    /\ trace' = <<Ev("get_bots", TRUE,
                      [name |-> name, game_app_id |-> game_app_id,
                       username |-> username,
                       result |-> get_bot_list(Filters(name, game_app_id, username))])>>
    /\ heap' = [r \in Refs |->
                  IF \E id \in DOMAIN bots \cap DOMAIN bot_configs : bots[id] = r
                  THEN pause_bot(W(r)).bot ELSE heap[r]]
    /\ UNCHANGED <<now, is_running, started, Registry, workers, orders,
                   notifications, last, errCap>>

get_bots(name, game_app_id, username) ==
    /\ trace' = <<Ev("get_bots", TRUE,
                      [name |-> name, game_app_id |-> game_app_id,
                       username |-> username,
                       result |-> get_bot_list(Filters(name, game_app_id, username))])>>
    /\ UNCHANGED <<now, is_running, started, Registry, heap, workers, orders,
                   notifications, last, errCap>>

\* create_order: the order id is "api_order_{clock second}".
create_order(id, items) ==
    /\ IF id \in DOMAIN bots
       THEN \E fetch \in FetchResults(bots[id]), sendOk \in BOOLEAN,
               refresh \in InventoryResults :
               LET s == send_trade_offer(W(bots[id]),
                                         [kind |-> "api_order", items |-> items],
                                         fetch, sendOk, refresh)
               IN  /\ Commit(bots[id], s.w)
                   /\ last' = Last("order", id, s.ret)
       ELSE /\ UNCHANGED <<heap, notifications, orders, trace>>
            /\ last' = Last("order", id, FALSE)
    /\ UNCHANGED <<now, is_running, started, Registry, workers, errCap>>

----------------------------------------------------------------------------
(* Specifications *)

Loop == \E r \in DOMAIN workers : WorkerLoop(r, FALSE)
Step1 == \E r \in DOMAIN workers : WorkerStep1(r, FALSE)
Step2 == \E r \in DOMAIN workers : WorkerStep2(r, FALSE)
Step3 == \E r \in DOMAIN workers : WorkerStep3(r, FALSE)
Step4 == \E r \in DOMAIN workers : WorkerStep4(r, FALSE)
Sleep == \E r \in DOMAIN workers : WorkerSleep(r)
Cooldown == \E r \in DOMAIN workers : WorkerCooldown(r)

\* The same steps with the history of the cycles kept.
TrackedLoop == \E r \in DOMAIN workers : WorkerLoop(r, TRUE)
TrackedStep1 == \E r \in DOMAIN workers : WorkerStep1(r, TRUE)
TrackedStep2 == \E r \in DOMAIN workers : WorkerStep2(r, TRUE)
TrackedStep3 == \E r \in DOMAIN workers : WorkerStep3(r, TRUE)
TrackedStep4 == \E r \in DOMAIN workers : WorkerStep4(r, TRUE)

Pause == \E id \in CallIds : BotManager_pause_bot(id)
Resume == \E id \in CallIds : BotManager_resume_bot(id)
Restart ==
    \E id \in CallIds, force \in BOOLEAN, ctorOk \in BOOLEAN :
        BotManager_restart_bot(id, force, ctorOk)
Delete == \E id \in CallIds : BotManager_delete_bot(id)
ManualInventory ==
    \E id \in CallIds : BotManager_get_bot_inventory_manual(id, InventoryResults)
FailingInventory ==
    \E id \in CallIds :
        BotManager_get_bot_inventory_manual(id, {[ok |-> FALSE, items |-> <<>>]})
Order == \E id \in CallIds, items \in OrderItemLists : create_order(id, items)

\* One stored bot with a generated id, its worker, and the callers that pause
\* and resume it: the error counting and escalation of one bot.
Init == InitWith([id \in {LoadedBot} |-> Stored(Config1, LoadedBot, 0)],
                 MaxErrors + ExtraErrors)

Next ==
    \/ run_all_bots
    \/ stop
    \/ Loop \/ Step1 \/ Step2 \/ Step3 \/ Step4 \/ Sleep \/ Cooldown
    \/ _health_check_job
    \/ Pause
    \/ Resume

Spec == Init /\ [][Next]_vars

\* The same stored bot in a process without workers (the API process): the
\* administrative calls that can record failures on it.
NextApi ==
    \/ Tick
    \/ Pause
    \/ Resume
    \/ ManualInventory
    \/ Order

SpecApi == Init /\ [][NextApi]_vars

\* The stored bot "test_bot" and its worker alone, with the history of its
\* cycles: what a sequence of cycles does to the error count.
InitWorker == InitWith([id \in {TestBot} |-> Stored(Config1, TestBot, 0)],
                       MaxErrors + ExtraErrors)

NextWorker ==
    \/ run_all_bots
    \/ TrackedLoop \/ TrackedStep1 \/ TrackedStep2 \/ TrackedStep3 \/ TrackedStep4
    \/ Sleep \/ Cooldown

SpecWorker == InitWorker /\ [][NextWorker]_vars

\* The stored bot "test_bot", whose worker finds a pending order in every
\* cycle, with restart and delete; few failures.
InitLife == InitWith([id \in {TestBot} |-> Stored(Config1, TestBot, 0)], LifeErrCap)

NextLife ==
    \/ run_all_bots
    \/ Loop \/ Step1 \/ Step2 \/ Step3 \/ Step4 \/ Sleep \/ Cooldown
    \/ Restart
    \/ Delete

SpecLife == InitLife /\ [][NextLife]_vars

\* An empty store: the registry operations on any id, known or not.
InitRegistry == InitWith(EmptyMap, RegErrCap)

NextRegistry ==
    \/ Tick
    \/ BotManager_create_bot
    \/ Pause
    \/ Resume
    \/ Restart
    \/ Delete
    \/ FailingInventory

SpecRegistry == InitRegistry /\ [][NextRegistry]_vars

\* The API process with few failures: what placing orders does to the
\* orders and the inventory snapshot.
InitOrders == InitWith([id \in {LoadedBot} |-> Stored(Config1, LoadedBot, 0)],
                       LifeErrCap)

SpecOrders == InitOrders /\ [][NextApi]_vars

\* Two stored bots and the administrative calls on them and on unknown ids.
InitAdmin == InitWith([id \in {LoadedBot, TestBot} |-> Stored(Config1, id, 0)],
                      RegErrCap)

NextAdmin ==
    \/ Pause
    \/ Resume
    \/ Restart
    \/ Delete
    \/ FailingInventory

SpecAdmin == InitAdmin /\ [][NextAdmin]_vars

\* Two stored bots of either game and the List endpoint, with pause and
\* delete changing what there is to list.
InitList == \E cfgs \in ListRegistries : InitWith(cfgs, RegErrCap)

List ==
    \E name \in TextFilters, game_app_id \in GameFilters, username \in TextFilters :
        get_bots(name, game_app_id, username)

NextList ==
    \/ List
    \/ Pause
    \/ Delete

SpecList == InitList /\ [][NextList]_vars

\* The whole system around one stored bot: startup, the workers, and every
\* registry operation, before and after startup.  No Trading Client call
\* fails here, there are no incoming offers and no sent orders, and the
\* waits end while the clock is below its bound.
InitSystem == InitWith([id \in {LoadedBot} |-> Stored(Config1, LoadedBot, 0)], 0)

\* create_bot with a valid configuration and a bot that can be constructed.
Register ==
    /\ \E cfg \in ValidConfigs : create_bot(cfg, TRUE)
    /\ UNCHANGED <<now, is_running, started, workers, orders, notifications,
                   trace, errCap>>

BoundedSleep == now < MaxClock /\ Sleep

\* Steps 1 and 2 when no offer has been received and no order has been sent.
QuietStep1 == Step1 /\ trace'[1].arg = <<>>
QuietStep2 == Step2 /\ trace'[1].arg = <<>>

NextSystem ==
    \/ run_all_bots
    \/ Loop \/ QuietStep1 \/ QuietStep2 \/ Step3 \/ Step4 \/ BoundedSleep
    \/ Register
    \/ Pause
    \/ Resume
    \/ Restart
    \/ Delete

SpecSystem == InitSystem /\ [][NextSystem]_vars

\* One stored bot and its worker, whose failing step 1 is taken in two
\* parts, with the callers of other threads that pause and resume the bot.
InitRace == InitWith([id \in {LoadedBot} |-> Stored(Config1, LoadedBot, 0)], LifeErrCap)

Step1Raises == \E r \in DOMAIN workers : WorkerStep1Raises(r)
Step1HandlesError == \E r \in DOMAIN workers : WorkerStep1HandlesError(r)

NextRace ==
    \/ run_all_bots
    \/ Loop \/ Step1 \/ Step1Raises \/ Step1HandlesError
    \/ Step2 \/ Step3 \/ Step4 \/ Sleep \/ Cooldown
    \/ Pause
    \/ Resume
    \/ _health_check_job

SpecRace == InitRace /\ [][NextRace]_vars

\* Two stored bots and their workers, for a few cycles: what the failures
\* of one bot do to the other.  The bot "test_bot" starts with no failure
\* behind it or with one failure less than max_errors.
InitTwo ==
    \E e \in {0, MaxErrors - 1} :
        /\ now = 0
        /\ is_running = TRUE
        /\ started = FALSE
        /\ bot_configs = [id \in {LoadedBot, TestBot} |-> Stored(Config1, id, 0)]
        /\ persisted = bot_configs
        /\ allocated = {}
        /\ heap = [r \in 1..2 |->
                     IF LoadedHeap(bot_configs)[r].bot_id = TestBot
                     THEN [LoadedHeap(bot_configs)[r] EXCEPT !.error_count = e]
                     ELSE LoadedHeap(bot_configs)[r]]
        /\ bots = [id \in DOMAIN bot_configs |->
                     CHOOSE r \in 1..2 : heap[r].bot_id = id]
        /\ workers = EmptyMap
        /\ orders = NoOrders
        /\ notifications = <<>>
        /\ trace = <<>>
        /\ last = NoCall
        /\ errCap = MaxErrors

BoundedCooldown == now < MaxClock /\ Cooldown

NextTwo ==
    \/ run_all_bots
    \/ Loop \/ Step1 \/ Step2 \/ Step3 \/ Step4 \/ BoundedSleep \/ BoundedCooldown

SpecTwo == InitTwo /\ [][NextTwo]_vars

\* Two stored bots in a process without workers whose manager is built anew
\* from the persisted store (at startup, after a restore), with the
\* registry operations and the inventory fetches between the rebuilds.
Reload == \E failing \in SUBSET DOMAIN persisted : _load_bot_configs(failing)

\* The manual inventory fetch answered by a failure or by one item.
OneItemInventory ==
    \E id \in CallIds :
        BotManager_get_bot_inventory_manual(
            id, {r \in InventoryResults : r.items \in {<<>>, <<Item1>>}})

NextReload ==
    \/ Reload
    \/ Register
    \/ Restart
    \/ Delete
    \/ OneItemInventory

SpecReload == InitAdmin /\ [][NextReload]_vars

\* The stored bot of Spec and its worker with the calls of pause_bot and
\* resume_bot taken step by step, while the Trading Client is down: every
\* step 1 fails in its fetch of the offers, below max_errors in one step
\* and at max_errors step by step.  The thread of the workers stands still
\* while it is inside pause_bot.
Wait == \E r \in Refs, t \in Threads : LockWait(r, t)
Acquire == \E r \in Refs, t \in Threads : LockAcquire(r, t)
Release == \E r \in Refs, t \in Threads : LockRelease(r, t)
Escalate == \E r \in DOMAIN workers : WorkerEscalates(r)

NextLock ==
    \/ run_all_bots
    \/ Idle("worker") /\ Loop
    \/ Idle("worker") /\ Step1 /\ ~trace'[1].ok /\ notifications' = notifications
    \/ Idle("worker") /\ Cooldown
    \/ Escalate
    \/ Wait
    \/ Acquire
    \/ Release

\* The holder of a lock goes on running, and a thread blocked on a lock
\* that is free again and again gets it.
LockFairness ==
    \A r \in 1..MaxBots, t \in Threads :
        WF_vars(LockRelease(r, t)) /\ SF_vars(LockAcquire(r, t))

SpecLock == Init /\ [][NextLock]_vars /\ LockFairness

----------------------------------------------------------------------------
(* Properties *)

Ended(r) == r \in DOMAIN workers /\ workers[r].pc \in {"sleep", "cooldown"}

\* The number of notifications recorded for bot id.
NotesOf(id) == Cardinality({i \in 1..Len(notifications) : notifications[i] = id})

\* C1: at the end of every worker cycle, error_count is one more than at the
\* start of the cycle if a call of the cycle failed, however many calls
\* failed, and 0 if none failed.
C1_OnePerFailingCycle ==
    \A r \in DOMAIN workers :
        Ended(r) =>
            IF workers[r].failed
            THEN heap[r].error_count = workers[r].start + 1
            ELSE heap[r].error_count = 0

\* C2: the step in which error_count reaches max_errors pauses the bot and
\* appends exactly one notification for it, and while error_count stays at
\* or above max_errors without a resume no step appends another one.
C2_NotifyOnce ==
    [][\A r \in Refs :
          /\ (heap[r].error_count < heap[r].max_errors
                 /\ heap'[r].error_count >= heap[r].max_errors)
               => (/\ ~heap'[r].is_active
                   /\ NotesOf(heap[r].bot_id)' = NotesOf(heap[r].bot_id) + 1)
          /\ (heap[r].error_count >= heap[r].max_errors
                 /\ heap'[r].error_count >= heap[r].error_count)
               => NotesOf(heap[r].bot_id)' = NotesOf(heap[r].bot_id)]_vars

\* C3: between operations a bot whose error_count has reached max_errors is
\* not active; and after 9 failing cycles in a row the bot is active with
\* error_count 9, after the 10th it is paused with error_count 10.
C3_EscalationAtTen ==
    /\ \A r \in Refs : heap[r].error_count >= heap[r].max_errors => ~heap[r].is_active
    /\ \A r \in DOMAIN workers :
          /\ (Ended(r) /\ workers[r].streak = MaxErrors - 1)
               => (heap[r].is_active /\ heap[r].error_count = MaxErrors - 1)
          /\ (Ended(r) /\ workers[r].streak = MaxErrors)
               => (~heap[r].is_active /\ heap[r].error_count = MaxErrors)

\* C4: a Resume that follows a Pause of the same known bot leaves the
\* registry's bot active with error_count 0, whatever its state was.
C4_PauseThenResume ==
    [][(last.op = "pause" /\ last.ok /\ last'.op = "resume" /\ last'.id = last.id)
         => (/\ last'.ok
             /\ last.id \in DOMAIN bots'
             /\ heap'[bots'[last.id]].is_active
             /\ heap'[bots'[last.id]].error_count = 0)]_vars

C4_Witness ==
    /\ last.op = "resume" /\ last.ok /\ last.afterPause /\ last.preMax
    /\ heap[bots[last.id]].is_active /\ heap[bots[last.id]].error_count = 0

\* A step in which the clock second changes (the order ids of the second
\* before are out of reach from then on).
TimePasses == Tick \/ Sleep \/ Cooldown

\* C5: no step within a clock second moves an order id from SENT back to
\* PENDING (or to no status), or out of COMPLETED or NOT_ACCEPTED.
C5_StatusNeverBackward ==
    [][~TimePasses =>
         \A k \in OrderKinds :
            /\ orders[k].status = SENT
                 => orders'[k].status \in {SENT, COMPLETED, NOT_ACCEPTED}
            /\ orders[k].status \in {COMPLETED, NOT_ACCEPTED}
                 => orders'[k].status = orders[k].status]_vars

\* What a call of send_trade_offer left in trace: the order it was given,
\* the snapshots it matched against, whether it submitted an offer.
IsSend(t) == Len(t) >= 1 /\ t[1].call = "SendTradeOffer"
SentOrder(t) == t[1].arg
Matched(t) == {t[i].arg : i \in {j \in 1..Len(t) : t[j].call = "match"}}
Submitted(t) == \E i \in 1..Len(t) : t[i].call = "send_trade_offer"
\* A step in which send_trade_offer runs: an order placed through the API
\* for a registered bot, or a worker's step 3 with a pending order.
SendStep ==
    \/ Order /\ last'.known
    \/ \E r \in DOMAIN workers :
          /\ _get_pending_orders_for_bot(heap[r].bot_id) # <<>>
          /\ WorkerStep3(r, FALSE)
AllPresent(snapshot, items) ==
    \A j \in 1..Len(items) : \E i \in 1..Len(snapshot) : snapshot[i] = items[j]

\* C6: a call of send_trade_offer submits an offer, or sets the order to
\* SENT, only if every requested (assetid, appid) pair is in the snapshot it
\* matched against; if a pair is absent it submits nothing and the order is
\* PENDING, and if there is no snapshot at all it submits nothing and leaves
\* the order as it was.
C6_SentOnlyIfAllPresent ==
    [][SendStep =>
         LET o == SentOrder(trace')
             present == \E sn \in Matched(trace') : AllPresent(sn, o.items)
         IN  /\ IsSend(trace')
             /\ Submitted(trace') => present
             /\ (orders'[o.kind].status = SENT /\ orders'[o.kind] # orders[o.kind])
                   => present
             /\ (Matched(trace') # {} /\ ~present)
                   => (~Submitted(trace') /\ orders'[o.kind].status = PENDING)
             /\ Matched(trace') = {}
                   => (~Submitted(trace') /\ orders'[o.kind] = orders[o.kind])]_vars

C6_Witness ==
    /\ IsSend(trace)
    /\ SentOrder(trace).items = <<Item1, Item2>>
    /\ Matched(trace) = {<<Item1>>}
    /\ ~Submitted(trace)
    /\ orders[SentOrder(trace).kind].status = PENDING

\* C7: after a successful Restart(id, force = false) of a bot that had a
\* running worker, exactly one live worker is bound to id, it drives the
\* registry's bot object, and that object's error_count is 0.
C7_RestartLeavesOneWorker ==
    (last.op = "restart" /\ last.ok /\ ~last.force /\ last.hadWorker
       /\ last.id \in DOMAIN bots)
      => (/\ LiveWorkers(last.id) = {bots[last.id]}
          /\ heap[bots[last.id]].error_count = 0)

\* C8: the id of a successful create_bot was never handed out before and is
\* not the key of a registry entry.
C8_FreshBotId ==
    (last.op = "create" /\ last.ok) => (last.fresh /\ ~last.overwrote)

\* C9: a create_bot that reports success adds exactly one registry entry,
\* whose bot is active with error_count 0, and persists its configuration;
\* one that reports failure leaves bots, configurations and store unchanged.
C9_RegisterAddsOne ==
    [][BotManager_create_bot =>
         IF last'.ok
         THEN /\ last'.id \notin DOMAIN bots
              /\ DOMAIN bots' = DOMAIN bots \cup {last'.id}
              /\ \A id \in DOMAIN bots : bots'[id] = bots[id]
              /\ heap'[bots'[last'.id]].is_active
              /\ heap'[bots'[last'.id]].error_count = 0
              /\ last'.id \in DOMAIN bot_configs' /\ last'.id \in DOMAIN persisted'
              /\ persisted'[last'.id] = bot_configs'[last'.id]
         ELSE UNCHANGED <<bots, bot_configs, persisted>>]_vars

\* C10: pause, resume, restart and delete of an id that is not in the
\* registry report failure and change no bot and no registry entry; pause of
\* a paused bot reports success and leaves it paused with its error_count.
C10_UnknownIdAndRepeatedPause ==
    [][/\ \A id \in CallIds \ DOMAIN bots :
            (\/ BotManager_pause_bot(id)
             \/ BotManager_resume_bot(id)
             \/ \E force \in BOOLEAN, ctorOk \in BOOLEAN :
                   BotManager_restart_bot(id, force, ctorOk)
             \/ BotManager_delete_bot(id))
              => (/\ ~last'.ok
                  /\ heap' = heap
                  /\ UNCHANGED <<bots, bot_configs, persisted>>)
       /\ \A id \in DOMAIN bots :
            (~heap[bots[id]].is_active /\ BotManager_pause_bot(id))
              => (/\ last'.ok
                  /\ bots' = bots
                  /\ ~heap'[bots[id]].is_active
                  /\ heap'[bots[id]].error_count = heap[bots[id]].error_count)]_vars

C10_Witness ==
    /\ last.op = "pause" /\ last.ok /\ ~last.preActive
    /\ last.id \in DOMAIN bots
    /\ ~heap[bots[last.id]].is_active
    /\ heap[bots[last.id]].error_count > 0

\* What a List query asks for: a text filter is given by a non-empty text,
\* a game filter by any game id.
SameLetter(a, b) == a = b \/ {a, b} \in {{"T", "t"}, {"B", "b"}, {"E", "e"}}
ContainsIgnoringCase(str, sub) ==
    \E i \in 0..(Len(str) - Len(sub)) :
        \A j \in 1..Len(sub) : SameLetter(str[i + j], sub[j])
Asked(name, game_app_id, username) ==
    {id \in DOMAIN bot_configs :
        /\ ContainsIgnoringCase(bot_configs[id].bot_name, name)
        /\ game_app_id # MissingInt => bot_configs[id].game_app_id = game_app_id
        /\ ContainsIgnoringCase(bot_configs[id].username, username)}

\* C12: a List query returns exactly the registered bots that satisfy every
\* filter given: game id equal to the game filter, name and account name
\* containing the text filters ignoring case; all bots without a filter.
C12_ListFilters ==
    (Len(trace) = 1 /\ trace[1].call = "get_bots")
      => LET q == trace[1].arg
         IN  {info.bot_id : info \in q.result}
               = Asked(q.name, q.game_app_id, q.username)

\* The ids an unfiltered List returns, and the bot objects of the registry.
ListedIds == {info.bot_id : info \in get_bot_list(EmptyMap)}
Registered == {bots[id] : id \in DOMAIN bots}

\* C11: a successful delete leaves the id out of the bot map, the
\* configuration map and the store, and its bot paused; an id that was
\* deleted is in no later List result; and a bot object that is out of the
\* registry and paused is never made active again.
C11_DeleteIsFinal ==
    [][/\ \A id \in DOMAIN bots :
            BotManager_delete_bot(id)
              => (/\ last'.ok
                  /\ id \notin DOMAIN bots'
                  /\ id \notin DOMAIN bot_configs'
                  /\ id \notin DOMAIN persisted'
                  /\ ~heap'[bots[id]].is_active)
       /\ \A id \in allocated \ DOMAIN bots : id \notin ListedIds'
       /\ \A r \in Refs \ Registered :
            ~heap[r].is_active => ~heap'[r].is_active]_vars

\* C13: in every state at most one worker that has not ended is bound to a
\* bot id.
C13_OneWorkerPerBot ==
    \A r \in Refs : Cardinality(LiveWorkers(heap[r].bot_id)) <= 1

C13_Witness ==
    /\ last.op = "restart" /\ last.ok /\ last.force /\ last.hadWorker
    /\ Cardinality(LiveWorkers(last.id)) = 1
    /\ Cardinality({r \in Refs : heap[r].bot_id = last.id /\ heap[r].is_active}) = 2

\* C14: once the workers have been started, a bot that create_bot has just
\* registered has exactly one worker, bound to its bot object.
C14_RegisteredBotHasWorker ==
    (started /\ last.op = "create" /\ last.ok /\ last.id \in DOMAIN bots)
      => (/\ bots[last.id] \in DOMAIN workers
          /\ LiveWorkers(last.id) = {bots[last.id]})

\* C15: a worker ends only when the orchestrator has been stopped; a pause
\* of its bot does not end it.
C15_PausedWorkerKeepsLooping ==
    \A r \in DOMAIN workers : workers[r].pc = "done" => ~is_running

\* The Trading Client calls among the events of a method call.
ClientCalls(t) ==
    {i \in 1..Len(t) : t[i].call \in {"get_trade_offers", "cancel_trade_offer",
                                        "send_trade_offer", "get_inventory"}}

\* A step in which a worker step or the order endpoint calls a method of
\* the bot object r.
BotCallBy(r) ==
    \/ WorkerStep1(r, FALSE)
    \/ WorkerStep3(r, FALSE)
    \/ WorkerStep4(r, FALSE)
    \/ \E id \in DOMAIN bots, items \in OrderItemLists :
          bots[id] = r /\ create_order(id, items)

\* C16: a worker step or an order placed through the API makes no Trading
\* Client call for a bot that is paused when the step begins.
C16_PausedBotMakesNoCall ==
    [][\A r \in Refs :
          (~heap[r].is_active /\ BotCallBy(r)) => ClientCalls(trace') = {}]_vars

\* C17: the registry's bot of an id goes from paused to active only in a
\* step of resume_bot or restart_bot called for that id by an administrator.
C17_NoAutomaticResume ==
    [][\A id \in DOMAIN bots :
          (/\ ~heap[bots[id]].is_active
           /\ id \in DOMAIN bots'
           /\ heap'[bots'[id]].is_active)
            => (\/ BotManager_resume_bot(id)
                \/ \E force \in BOOLEAN, ctorOk \in BOOLEAN :
                      BotManager_restart_bot(id, force, ctorOk))]_vars

\* A step of the cycle body of the worker at r.
CycleStep(r) ==
    \/ WorkerStep1(r, FALSE)
    \/ WorkerStep2(r, FALSE)
    \/ WorkerStep3(r, FALSE)
    \/ WorkerStep4(r, FALSE)

\* C18: once delete_bot has succeeded for an id, the worker of the deleted
\* bot object takes no further step of the cycle it is in.
C18_DeletedWorkerStops ==
    [][(last.op = "delete" /\ last.ok)
         => \A r \in DOMAIN workers :
               (heap[r].bot_id = last.id /\ ~heap[r].is_active) => ~CycleStep(r)]_vars

\* C19: after a successful restart_bot(id, force = True) of a bot that had a
\* running worker, the worker of the replaced object begins no further
\* cycle and makes no further Trading Client call.
C19_ForcedRestartStopsOldWorker ==
    [][(last.op = "restart" /\ last.ok /\ last.force /\ last.hadWorker
          /\ last.id \in DOMAIN bots)
         => \A r \in DOMAIN workers :
               (heap[r].bot_id = last.id /\ r # bots[last.id])
                 => (/\ ~(WorkerLoop(r, FALSE) /\ workers'[r].pc = "step1")
                     /\ ~(CycleStep(r) /\ ClientCalls(trace') # {}))]_vars

\* C20: resume_bot never comes between the worker's read and write of
\* error_count: while the worker is between the two, the bot's error_count
\* is the value the worker has read.
C20_IncrementNotInterleaved ==
    \A r \in DOMAIN workers :
        workers[r].pc = "step1_store" => heap[r].error_count = workers[r].loaded

\* C21: a step of one bot's worker, whatever fails in it, leaves every
\* other bot object (is_active, error_count, inventory, refresh counter) and
\* every other worker as they were.
C21_FailuresStayLocal ==
    [][\A r \in DOMAIN workers :
          CycleStep(r)
            => \A q \in Refs \ {r} :
                  /\ heap'[q] = heap[q]
                  /\ q \in DOMAIN workers => workers'[q] = workers[q]]_vars

C21_Witness ==
    \E a \in DOMAIN workers, b \in DOMAIN workers :
        /\ a # b
        /\ heap[a].error_count >= heap[a].max_errors
        /\ ~heap[a].is_active
        /\ NotesOf(heap[a].bot_id) > 0
        /\ heap[b].is_active
        /\ heap[b].error_count = 0
        /\ workers[b].pc = "step2"

\* The last event of a method call is a call that failed: the method raised
\* or recorded the failure.
EndsInFailure(t) == t # <<>> /\ ~t[Len(t)].ok

\* C22: a worker ends only at the test of its loop, when the orchestrator
\* has been stopped or its bot is not active; no step of a cycle ends it,
\* and a step 1 or step 4 whose call raises takes the worker to the wait
\* after an exception.
C22_NoExceptionEscapes ==
    [][\A r \in DOMAIN workers :
          /\ (workers[r].pc # "done" /\ workers'[r].pc = "done")
               => (WorkerLoop(r, FALSE) /\ (~is_running \/ ~heap[r].is_active))
          /\ CycleStep(r) => workers'[r].pc # "done"
          /\ ((WorkerStep1(r, FALSE) \/ WorkerStep4(r, FALSE)) /\ EndsInFailure(trace'))
               => workers'[r].pc = "cooldown"]_vars

C22_Witness ==
    \E r \in DOMAIN workers :
        /\ workers[r].pc = "cooldown"
        /\ EndsInFailure(trace)
        /\ trace[Len(trace)].call = "get_inventory"
        /\ heap[r].counter >= RefreshEvery
        /\ is_running /\ heap[r].is_active

\* C23: a worker step in which a call to the Trading Client or to the order
\* store fails raises the bot's error_count.
C23_EveryFailureCounts ==
    [][\A r \in DOMAIN workers :
          (/\ CycleStep(r)
           /\ WorkerStep3(r, FALSE) => _get_pending_orders_for_bot(heap[r].bot_id) # <<>>
           /\ \E i \in 1..Len(trace') : ~trace'[i].ok)
            => heap'[r].error_count > heap[r].error_count]_vars

\* C24: within a cycle a step begins only when the step before it has
\* returned: step 1 after the loop test, step 2 after a step 1 that did not
\* raise, step 3 after step 2, step 4 after step 3; a step 1 that raises is
\* followed by the wait and the next loop test, by none of steps 2-4.
C24_StepsInOrder ==
    [][\A r \in DOMAIN workers :
          LET pc == workers[r].pc
              next == workers'[r].pc
          IN  next # pc =>
                /\ next = "step1" => pc = "loop"
                /\ next = "step2" => (pc = "step1" /\ ~EndsInFailure(trace'))
                /\ next = "step3" => pc = "step2"
                /\ next = "step4" => pc = "step3"
                /\ (pc = "step1" /\ EndsInFailure(trace')) => next = "cooldown"
                /\ pc = "cooldown" => next = "loop"]_vars

C24_Witness ==
    \E r \in DOMAIN workers :
        /\ workers[r].pc = "cooldown"
        /\ EndsInFailure(trace)
        /\ trace[Len(trace)].call = "cancel_trade_offer"
        /\ workers[r].failed

\* What a call of get_trade_offers left in trace: the received offers that
\* were in the active state, and the cancel calls made for each offer.
IsIntake(t) == t # <<>> /\ t[1].call = "get_trade_offers" /\ t[1].ok
ActiveOffers(t) == {i \in 1..Len(t[1].arg) : t[1].arg[i] = StateActive}
CancelsOf(t, i) ==
    {j \in 1..Len(t) : t[j].call = "cancel_trade_offer" /\ t[j].arg = <<i>>}
FailedCancel(t) == \E j \in 1..Len(t) : t[j].call = "cancel_trade_offer" /\ ~t[j].ok

\* C25: a step 1 in which a cancel call fails still makes a cancel call for
\* every active received offer and goes on to step 2.
C25_CancelFailureDoesNotAbort ==
    [][\A r \in DOMAIN workers :
          (WorkerStep1(r, FALSE) /\ IsIntake(trace') /\ FailedCancel(trace'))
            => (/\ \A i \in ActiveOffers(trace') : CancelsOf(trace', i) # {}
                /\ workers'[r].pc = "step2")]_vars

\* C26: after a get_trade_offers in which no call failed, exactly one
\* cancel call has been made for each received offer in the active state
\* and none for any other offer, and no offer has been accepted.
C26_CancelsExactlyActive ==
    (IsIntake(trace) /\ \A j \in 1..Len(trace) : trace[j].ok)
      => (/\ \A i \in 1..Len(trace[1].arg) :
                Cardinality(CancelsOf(trace, i))
                  = IF i \in ActiveOffers(trace) THEN 1 ELSE 0
          /\ \A j \in 1..Len(trace) :
                trace[j].call \in {"get_trade_offers", "cancel_trade_offer"})

C26_Witness ==
    /\ IsIntake(trace)
    /\ \A j \in 1..Len(trace) : trace[j].ok
    /\ ActiveOffers(trace) = {1, 3}
    /\ Len(trace[1].arg) = 3
    /\ Len(trace) = 3

\* The status reconciliation gives an order whose offer has the remote
\* state remote; NoStatus stands for no change.
Reconciled(remote) ==
    CASE remote = "accepted" -> COMPLETED
      [] remote \in {"declined", "expired"} -> NOT_ACCEPTED
      [] OTHER -> NoStatus

\* C27: a sync_trade_status that has read the sent orders sets each of them
\* that has an offer id to COMPLETED when its offer was accepted and to
\* NOT_ACCEPTED when it was declined or expired, and changes no other order.
C27_ReconcileByRemoteStatus ==
    [][\A r \in DOMAIN workers :
          (WorkerStep2(r, FALSE) /\ trace'[1].ok)
            => LET sent == trace'[1].arg
                   Changed == {i \in 1..Len(sent) :
                                  /\ sent[i].offer_id # NoOffer
                                  /\ Reconciled(sent[i].remote) # NoStatus}
               IN  /\ \A i \in Changed :
                         orders'[sent[i].kind].status = Reconciled(sent[i].remote)
                   /\ \A k \in OrderKinds \ {sent[i].kind : i \in Changed} :
                         orders'[k] = orders[k]]_vars

\* The bot object a send step calls send_trade_offer on.
Sender(r) ==
    \/ \E id \in DOMAIN bots, items \in OrderItemLists :
          bots[id] = r /\ create_order(id, items)
    \/ /\ _get_pending_orders_for_bot(heap[r].bot_id) # <<>>
       /\ WorkerStep3(r, FALSE)

\* C28: a send_trade_offer that has a snapshot to match against and does
\* not find every requested item in it submits no offer, sets the order to
\* PENDING and leaves the bot's error_count and is_active as they were.
C28_MissingItemsAreNoError ==
    [][\A r \in Refs :
          (/\ Sender(r)
           /\ Matched(trace') # {}
           /\ \A sn \in Matched(trace') : ~AllPresent(sn, SentOrder(trace').items))
            => (/\ ~Submitted(trace')
                /\ orders'[SentOrder(trace').kind].status = PENDING
                /\ heap'[r].error_count = heap[r].error_count
                /\ heap'[r].is_active = heap[r].is_active)]_vars

C28_Witness ==
    /\ IsSend(trace)
    /\ SentOrder(trace).items = <<Item3>>
    /\ Matched(trace) = {<<Item2, Item1>>}
    /\ \E j \in 1..Len(trace) : trace[j].call = "get_inventory" /\ trace[j].ok
    /\ ~Submitted(trace)
    /\ orders[SentOrder(trace).kind].status = PENDING
    /\ \A r \in Refs : heap[r].error_count = 0 /\ heap[r].is_active

\* The submission among the events of a send_trade_offer, and the inventory
\* fetches made after it.
Submission(t) == CHOOSE j \in 1..Len(t) : t[j].call = "send_trade_offer"
Refreshes(t) == {j \in (Submission(t) + 1)..Len(t) : t[j].call = "get_inventory"}

\* C29: when the Trading Client accepts the submission the order is SENT
\* with the offer id and an inventory fetch follows; when the submission
\* fails the order is left as it was, no inventory fetch follows and
\* error_count is one more than before.
C29_SubmissionOutcome ==
    [][\A r \in Refs :
          (Sender(r) /\ Submitted(trace'))
            => LET k == SentOrder(trace').kind
               IN  IF trace'[Submission(trace')].ok
                   THEN /\ orders'[k] = [status |-> SENT, offer_id |-> OfferId]
                        /\ Refreshes(trace') # {}
                   ELSE /\ orders'[k] = orders[k]
                        /\ Refreshes(trace') = {}
                        /\ heap'[r].error_count = heap[r].error_count + 1]_vars

C29_Witness ==
    /\ IsSend(trace)
    /\ Submitted(trace)
    /\ ~trace[Submission(trace)].ok
    /\ orders[SentOrder(trace).kind].status = PENDING
    /\ \E r \in Refs : heap[r].error_count = 1

\* C30: with n - 1 cycles having reached step 4 since the bot's last
\* successful periodic refresh (its counter), step 4 fetches the inventory
\* exactly when n has reached RefreshEvery; a fetch that succeeds starts the
\* count again at 0, and one that fails leaves it at n, so that the next
\* step 4 fetches again.
C30_PeriodicRefresh ==
    [][\A r \in DOMAIN workers :
          WorkerStep4(r, TRUE)
            => LET n == heap[r].counter + 1
                   fetched == trace' # <<>> /\ trace'[1].call = "get_inventory"
               IN  /\ fetched <=> n >= RefreshEvery
                   /\ heap'[r].counter = IF fetched /\ trace'[1].ok THEN 0 ELSE n
                   /\ workers'[r].pc = IF fetched /\ ~trace'[1].ok
                                       THEN "cooldown" ELSE "sleep"]_vars

C30_Witness ==
    \E r \in DOMAIN workers :
        /\ workers[r].pc = "sleep"
        /\ workers[r].streak >= 1
        /\ heap[r].counter = 0
        /\ trace # <<>> /\ trace[1].call = "get_inventory" /\ trace[1].ok

\* C31: a cycle is followed by exactly one wait.  The wait after an
\* exception (asyncio.sleep(300)) follows exactly the step 1 or step 4 whose
\* call raised; the ordinary wait (asyncio.sleep(30)) follows exactly the
\* step 4 that did not raise, whether or not a step of the cycle recorded a
\* failure of its own; the next loop test comes only after one of the waits.
C31_WaitAfterCycle ==
    [][\A r \in DOMAIN workers :
          LET pc == workers[r].pc
              next == workers'[r].pc
          IN  next # pc =>
                /\ next = "cooldown"
                     <=> (pc \in {"step1", "step4"} /\ EndsInFailure(trace'))
                /\ next = "sleep" <=> (pc = "step4" /\ ~EndsInFailure(trace'))
                /\ pc \in {"sleep", "cooldown"} => next = "loop"
                /\ next = "loop" => pc \in {"sleep", "cooldown"}]_vars

C31_Witness ==
    \E r \in DOMAIN workers :
        /\ workers[r].pc = "sleep"
        /\ workers[r].failed
        /\ heap[r].error_count > workers[r].start
        /\ ~EndsInFailure(trace)

\* The inventory fetches among the events of a method call, and those that
\* succeeded.
Fetches(t) == {j \in 1..Len(t) : t[j].call = "get_inventory"}
Fetched(t) == {j \in Fetches(t) : t[j].ok}
Latest(js) == CHOOSE j \in js : \A k \in js : k <= j

\* C32: in a call of send_trade_offer or of the manual inventory fetch on a
\* registered bot, the item matching runs only against a snapshot that
\* exists: with no snapshot the call fetches one before anything else, and
\* matches against what that fetch returned; the matching that follows a
\* failed fetch does not happen.  After the call the snapshot is the whole
\* answer of its last successful fetch, and what it was before the call
\* (a snapshot or none) if no fetch succeeded.
C32_SnapshotBeforeMatching ==
    [][((Order \/ ManualInventory) /\ last'.known) =>
         LET r == bots[last'.id]
             before == heap[r].inventory
         IN  /\ \A j \in 1..Len(trace') :
                   trace'[j].call = "match" =>
                     LET done == {i \in Fetched(trace') : i < j}
                     IN  /\ before.present \/ done # {}
                         /\ trace'[j].arg = IF done = {} THEN before.items
                                            ELSE trace'[Latest(done)].arg
                         /\ \A i \in Fetches(trace') : i < j => trace'[i].ok
             /\ (IsSend(trace') /\ ~before.present)
                   => (Len(trace') >= 2 /\ trace'[2].call = "get_inventory")
             /\ heap'[r].inventory =
                   IF Fetched(trace') = {} THEN before
                   ELSE BotInventory(trace'[Latest(Fetched(trace'))].arg)]_vars

C32_Witness ==
    /\ last.op = "order" /\ last.known
    /\ IsSend(trace)
    /\ Len(trace) = 3
    /\ trace[2].call = "get_inventory" /\ trace[2].ok
    /\ trace[3].call = "match" /\ trace[3].arg = trace[2].arg
    /\ heap[bots[last.id]].inventory = BotInventory(trace[2].arg)

\* A step of the List endpoint: the one step that leaves a get_bots event.
Listing == trace' # <<>> /\ trace'[1].call = "get_bots"

\* C33: a List request changes no bot object (is_active, error_count,
\* inventory snapshot and every other field), no entry of the bot map or of
\* the configuration map and nothing of the persisted store; it takes no
\* bot's lock (the _lock of every object is as it was), being a read of
\* the fields in one step.
C33_ListReadsOnly ==
    [][Listing => (/\ heap' = heap
                   /\ bots' = bots
                   /\ bot_configs' = bot_configs
                   /\ persisted' = persisted
                   /\ workers' = workers
                   /\ orders' = orders
                   /\ notifications' = notifications)]_vars

C33_Witness ==
    /\ trace # <<>>
    /\ trace[1].call = "get_bots"
    /\ \E a, b \in trace[1].arg.result : a.is_active /\ ~b.is_active
    /\ \E id \in DOMAIN bots : heap[bots[id]].is_active
    /\ \E id \in DOMAIN bots : ~heap[bots[id]].is_active

\* A step of restart_bot: every administrative call records itself in last.
Restarting == last'.op = "restart"

\* C34: a restart_bot that reports success, forced or not, puts in the bot
\* map under the same id a new bot object built from the stored
\* configuration of that id: its bot_id, bot_name and game_app_id are those
\* of the object it replaces, it is active, its error_count is 0 and it has
\* no inventory snapshot.  The configuration map, the persisted store and
\* the entry and object of every other bot are unchanged.
C34_RestartReplacesFromConfig ==
    [][(Restarting /\ last'.ok) =>
         LET id == last'.id
             old == heap[bots[id]]
             new == heap'[bots'[id]]
         IN  /\ DOMAIN bots' = DOMAIN bots
             /\ bots'[id] \notin Refs
             /\ new = SteamBot(id, bot_configs[id])
             /\ new.bot_id = old.bot_id
             /\ new.bot_name = old.bot_name
             /\ new.game_app_id = old.game_app_id
             /\ new.is_active /\ new.error_count = 0
             /\ new.inventory = NoInventory
             /\ bot_configs' = bot_configs
             /\ persisted' = persisted
             /\ \A other \in DOMAIN bots \ {id} :
                   /\ bots'[other] = bots[other]
                   /\ heap'[bots[other]] = heap[bots[other]]]_vars

\* A forced restart has replaced a paused bot that had failures and a
\* snapshot, beside another bot with a snapshot.
C34_Witness ==
    /\ last.op = "restart" /\ last.ok /\ last.force /\ ~last.preActive
    /\ last.id \in DOMAIN bots
    /\ heap[bots[last.id]] = SteamBot(last.id, bot_configs[last.id])
    /\ \E r \in Refs \ {bots[id] : id \in DOMAIN bots} :
          /\ heap[r].bot_id = last.id
          /\ heap[r].inventory.present
          /\ heap[r].error_count > 0
    /\ \E other \in DOMAIN bots \ {last.id} : heap[bots[other]].inventory.present

\* C35: an order placed through the API for a registered bot is answered
\* true exactly when the call submitted an offer that the Trading Client
\* accepted and set the order to SENT, and false exactly when no offer was
\* submitted and the order is not SENT.
C35_ReturnTellsOutcome ==
    [][(Order /\ last'.known) =>
         LET k == SentOrder(trace').kind
             sent == /\ Submitted(trace')
                     /\ trace'[Submission(trace')].ok
                     /\ orders'[k].status = SENT
         IN  /\ last'.ok <=> sent
             /\ ~last'.ok => (orders'[k].status # SENT
                                /\ ~(Submitted(trace')
                                       /\ trace'[Submission(trace')].ok))]_vars

\* C36: a step 1 that returns leaves error_count at 0, whatever the count
\* was when the cycle began.  The steps 2-4 that follow only add to the
\* count, which therefore holds the failures of this cycle alone; they
\* pause the bot only with the count at max_errors, and as one cycle has
\* fewer failures than that, the bot is still active after each of them.
C36_StepOneStartsTheCountAgain ==
    [][\A r \in DOMAIN workers :
          LET pc == workers[r].pc
              next == workers'[r].pc
          IN  next # pc =>
                /\ (pc = "step1" /\ next = "step2") => heap'[r].error_count = 0
                /\ pc \in {"step2", "step3", "step4"} =>
                      /\ heap'[r].error_count >= heap[r].error_count
                      /\ ~heap'[r].is_active => heap'[r].error_count >= MaxErrors
                      /\ heap'[r].error_count < MaxErrors
                      /\ heap'[r].is_active]_vars

\* More failing cycles in a row than max_errors, the last of them with a
\* failure after its step 1, and the bot is active.
C36_Witness ==
    \E r \in DOMAIN workers :
        /\ workers[r].pc = "sleep"
        /\ workers[r].streak = MaxErrors + 1
        /\ workers[r].failed
        /\ workers[r].start > 0
        /\ heap[r].error_count > 0
        /\ heap[r].is_active

\* C37: a restart_bot of a registered id that reports failure (the new bot
\* could not be built) leaves the bot map, the configuration map and the
\* persisted store as they were and creates no object; the registered
\* object keeps its error_count and every other field but is_active, which
\* is false after a restart without force and unchanged after a forced one.
\* No other object changes.
C37_FailedRestartKeepsOriginal ==
    [][(Restarting /\ ~last'.ok /\ last'.known) =>
         LET r == bots[last'.id]
         IN  /\ bots' = bots
             /\ bot_configs' = bot_configs
             /\ persisted' = persisted
             /\ Len(heap') = Len(heap)
             /\ heap'[r].error_count = heap[r].error_count
             /\ heap'[r].is_active = (last'.force /\ heap[r].is_active)
             /\ heap'[r] = [heap[r] EXCEPT !.is_active = heap'[r].is_active]
             /\ \A q \in Refs \ {r} : heap'[q] = heap[q]]_vars

C37_Witness ==
    /\ last.op = "restart" /\ ~last.ok /\ last.known
    /\ ~last.force /\ last.preActive
    /\ last.id \in DOMAIN bots /\ last.id \in DOMAIN bot_configs
    /\ ~heap[bots[last.id]].is_active
    /\ heap[bots[last.id]].error_count > 0
    /\ heap[bots[last.id]].inventory.present

\* C38: in every state reached by rebuilding the manager from the
\* persisted store and by create_bot, restart_bot and delete_bot, every id
\* of the bot map is an id of the configuration map.
C38_BotsHaveConfigs == DOMAIN bots \subseteq DOMAIN bot_configs

\* A bot has been registered, after a delete, beside a stored bot that the
\* rebuild could not construct.
C38_Witness ==
    /\ last.op = "create" /\ last.ok
    /\ last.id \in DOMAIN bots
    /\ \E id \in DOMAIN bot_configs : id \notin DOMAIN bots

\* What get_bot_list without filters reports for bot id.
Listed(id) == {info \in get_bot_list(EmptyMap) : info.bot_id = id}

\* C40: after the manager has been built anew from the persisted store
\* the configuration map is the store, so every stored id is listed; each
\* stored bot that could be constructed is in the bot map as a new object
\* built from its stored configuration, active and with error_count 0,
\* whatever the bot of that id was before; each stored bot that could not
\* be constructed has its configuration and no bot object, and is listed
\* with is_active false and error_count 0.
C40_RebuildFromStore ==
    [][last'.op = "load" =>
         /\ bot_configs' = persisted
         /\ persisted' = persisted
         /\ DOMAIN bots' \subseteq DOMAIN persisted
         /\ \A id \in DOMAIN persisted :
               /\ Cardinality(Listed(id)') = 1
               /\ \A info \in Listed(id)' :
                     IF id \in DOMAIN bots'
                     THEN /\ heap'[bots'[id]] = SteamBot(id, persisted[id])
                          /\ info.is_active /\ info.error_count = 0
                     ELSE ~info.is_active /\ info.error_count = 0]_vars

\* The rebuild came upon a paused bot; one stored bot was constructed and
\* the other was not.
C40_Witness ==
    /\ last.op = "load" /\ ~last.preActive
    /\ \E id \in DOMAIN bot_configs : id \in DOMAIN bots
    /\ \E id \in DOMAIN bot_configs :
          /\ id \notin DOMAIN bots
          /\ \A info \in Listed(id) : ~info.is_active /\ info.error_count = 0
    /\ \A id \in DOMAIN bots :
          heap[bots[id]].is_active /\ heap[bots[id]].error_count = 0

\* Thread t is blocked on the lock of the bot at r; thread t holds it.
Blocked(r, t) == r \in Refs /\ t \in heap[r]._lock.waiting
Holds(r, t) == r \in Refs /\ heap[r]._lock.holder = t

\* C39: a bot's lock cannot deadlock.  The thread that holds a lock is
\* blocked on no lock (pause_bot is never called with the lock held), and
\* while the workers' thread holds one no bot method makes a call; so
\* every thread that holds a lock releases it, and every thread blocked on
\* a lock (the escalation of _handle_error, a concurrent pause, a
\* concurrent resume) comes to hold it.
C39_LockIsReleased ==
    /\ [](\A r \in Refs, t \in Threads :
             Holds(r, t) => \A q \in Refs : ~Blocked(q, t))
    /\ [][(\E r \in Refs : Holds(r, "worker")) => trace' = trace]_vars
    /\ \A t \in Threads :
          /\ (\E r \in Refs : Blocked(r, t)) ~> (\E r \in Refs : Holds(r, t))
          /\ (\E r \in Refs : Holds(r, t)) ~> Idle(t)

\* The escalation is blocked on the lock while the administrator's pause
\* holds it and the scheduler's resume waits as well.
C39_Witness ==
    \E r \in DOMAIN workers :
        /\ workers[r].pc = "step1_pause"
        /\ heap[r].error_count >= heap[r].max_errors
        /\ Holds(r, "admin")
        /\ Blocked(r, "worker")
        /\ Blocked(r, "scheduler")

====
